---- MODULE Spec2Model ----
(***************************************************************************)
(* Model of get_blogspot_linked_images.py.                                 *)
(*                                                                         *)
(* Python strings whose characters matter (hrefs, image sources, URLs,     *)
(* content types) are sequences of one-character strings, so that          *)
(* str.endswith and str.startswith are computed, not assumed.  Tag names   *)
(* and attribute names are only ever compared for equality and are plain   *)
(* TLA+ strings.  A document is the sequence of tag events that            *)
(* html.parser.HTMLParser.feed reports for it: a start tag, an end tag or  *)
(* a self-closing tag, each with its (name, value) attribute list.         *)
(***************************************************************************)
EXTENDS Integers, Sequences, FiniteSets, TLC

(* ---------------------------- bounds ----------------------------------- *)

\* longest arbitrary post document, in tag events
MaxDocLen == 4

\* most anchor elements in a document of the form (<a href=h><img></a>)*
MaxAnchors == 3

\* most pages the posts listing has
MaxPages == 3

\* most posts on one page
MaxItems == 2

\* longest document behind a candidate link, in tag events
MaxBodyLen == 3

\* most base-1000 digits of a byte count
MaxLimbs == 6

\* most download_url_to_directory calls in a row
MaxDownloads == 3

\* most listing pages of a crawled blog, each with one post
MaxCrawlPages == 2

(* ---------------------------- strings ---------------------------------- *)

\* Python's None, as the value of an attribute written without a value
\* (<a href>) or of a missing header; it is not a string of characters.
None == <<"None">>

s_png == <<"p", "n", "g">>
s_gif == <<"g", "i", "f">>
s_jpg == <<"j", "p", "g">>
s_jpeg == <<"j", "p", "e", "g">>

\* "c.gif", "b.png", "p.html", "t.png"
u_cgif == <<"c", ".", "g", "i", "f">>
u_bpng == <<"b", ".", "p", "n", "g">>
u_phtml == <<"p", ".", "h", "t", "m", "l">>
u_tpng == <<"t", ".", "p", "n", "g">>

\* "image", and the content types "image/jpeg", "images/png", "text/html",
\* "Image/png"
s_image == <<"i", "m", "a", "g", "e">>
ct_image_jpeg == s_image \o <<"/", "j", "p", "e", "g">>
ct_images_png == s_image \o <<"s", "/", "p", "n", "g">>
ct_text_html == <<"t", "e", "x", "t", "/", "h", "t", "m", "l">>
ct_Image_png == <<"I", "m", "a", "g", "e", "/", "p", "n", "g">>

\* str.endswith(suffix)
EndsWith(string, suffix) ==
  /\ Len(string) >= Len(suffix)
  /\ SubSeq(string, Len(string) - Len(suffix) + 1, Len(string)) = suffix

\* str.startswith(prefix)
StartsWith(string, prefix) ==
  /\ Len(string) >= Len(prefix)
  /\ SubSeq(string, 1, Len(prefix)) = prefix

\* truth value of a Python list used as a condition: non-empty
Truthy(list) == Len(list) > 0

(* ------------------------- utility functions --------------------------- *)

extensions == <<s_png, s_gif, s_jpg, s_jpeg>>

\* is_image_filename returns the LIST of the four endswith results
is_image_filename(string) ==
  [i \in 1..Len(extensions) |-> EndsWith(string, extensions[i])]

\* all values with a given key in [(key, value), ...], in order
find_key(list_kvpairs, search) ==
  LET sel == SelectSeq(list_kvpairs, LAMBDA kv : kv[1] = search)
  IN [i \in 1..Len(sel) |-> sel[i][2]]

(* --------------------------- tag events -------------------------------- *)

StartTag(tag, attrs) == [kind |-> "start", tag |-> tag, attrs |-> attrs]
EndTag(tag) == [kind |-> "end", tag |-> tag, attrs |-> <<>>]
StartEndTag(tag, attrs) == [kind |-> "startend", tag |-> tag, attrs |-> attrs]

\* <a href="h">
AnchorOpen(h) == StartTag("a", << <<"href", h>> >>)

\* <img src="t.png">
ImgTag == StartTag("img", << <<"src", u_tpng>> >>)

\* <img src="t.png"/>
ImgSelfClosed == StartEndTag("img", << <<"src", u_tpng>> >>)

\* hrefs with an image-file extension that the documents use
ImageHrefs == {u_cgif, u_bpng}

\* the tag events the post documents are made of
PostEvents ==
  {AnchorOpen(h) : h \in ImageHrefs \cup {u_phtml, None}}
    \cup {StartTag("a", << <<"name", u_tpng>> >>),
          EndTag("a"), ImgTag, ImgSelfClosed, StartTag("div", <<>>)}

\* all sequences over S of length at most n
SeqsUpTo(S, n) == UNION {[1..k -> S] : k \in 0..n}

\* <a href=h1><img></a> ... <a href=hn><img></a>
Wrapped(hs) ==
  [i \in 1..(3 * Len(hs)) |->
     IF i % 3 = 1 THEN AnchorOpen(hs[(i + 2) \div 3])
     ELSE IF i % 3 = 2 THEN ImgTag
     ELSE EndTag("a")]

PostDocs ==
  SeqsUpTo(PostEvents, MaxDocLen)
    \cup {Wrapped(hs) : hs \in SeqsUpTo(ImageHrefs, MaxAnchors)}

(* ------------------------- ImageLinkSearcher --------------------------- *)

\* ImageLinkSearcher.__init__; exc is the exception a handler raised
ILS_init == [linkstack |-> <<>>, images |-> <<>>, exc |-> "none"]

\* the handler with a slip: the image's own src is recorded, not the link
ILS_handle_starttag_src(self, tag, attrs) ==
  LET hrefs == find_key(attrs, "href")
      s1 == IF tag = "a" /\ Truthy(hrefs)
            THEN [self EXCEPT !.linkstack = Append(@, hrefs[1])]
            ELSE self
  IN IF tag = "img" /\ Truthy(s1.linkstack)
     THEN LET link == s1.linkstack[Len(s1.linkstack)]
          IN IF link = None
             THEN [s1 EXCEPT !.exc = "AttributeError"]
             ELSE IF Truthy(is_image_filename(link))
                  THEN [s1 EXCEPT !.images = @ \o find_key(attrs, "src")]
                  ELSE s1
     ELSE s1

\* the handler with a slip: an accepted link is recorded twice
ILS_handle_starttag_twice(self, tag, attrs) ==
  LET hrefs == find_key(attrs, "href")
      s1 == IF tag = "a" /\ Truthy(hrefs)
            THEN [self EXCEPT !.linkstack = Append(@, hrefs[1])]
            ELSE self
  IN IF tag = "img" /\ Truthy(s1.linkstack)
     THEN LET link == s1.linkstack[Len(s1.linkstack)]
          IN IF link = None
             THEN [s1 EXCEPT !.exc = "AttributeError"]
             ELSE IF Truthy(is_image_filename(link))
                  THEN [s1 EXCEPT !.images = @ \o <<link, link>>]
                  ELSE s1
     ELSE s1

ILS_handle_starttag(self, tag, attrs) ==
  LET hrefs == find_key(attrs, "href")
      s1 == IF tag = "a" /\ Truthy(hrefs)
            THEN [self EXCEPT !.linkstack = Append(@, hrefs[1])]
            ELSE self
  IN IF tag = "img" /\ Truthy(s1.linkstack)
     THEN LET link == s1.linkstack[Len(s1.linkstack)]
          IN IF link = None
             THEN [s1 EXCEPT !.exc = "AttributeError"]
             ELSE IF Truthy(is_image_filename(link))
                  THEN [s1 EXCEPT !.images = Append(@, link)]
                  ELSE s1
     ELSE s1

ILS_handle_endtag(self, tag) ==
  IF tag = "a"
  THEN IF self.linkstack = <<>>
       THEN [self EXCEPT !.exc = "IndexError"]
       ELSE [self EXCEPT !.linkstack = SubSeq(@, 1, Len(@) - 1)]
  ELSE self

\* HTMLParser.handle_startendtag, inherited: start handler, then end handler
ILS_handle_startendtag(self, tag, attrs) ==
  LET s1 == ILS_handle_starttag(self, tag, attrs)
  IN IF s1.exc # "none" THEN s1 ELSE ILS_handle_endtag(s1, tag)

(* ---------------------------- ImageSearcher ---------------------------- *)

\* ImageSearcher.__init__
IS_init == [image_sources |-> <<>>, exc |-> "none"]

IS_handle_starttag(self, tag, attrs) ==
  IF tag = "img"
  THEN LET src == find_key(attrs, "src")
       IN IF Len(src) = 0
          THEN [self EXCEPT !.exc = "IndexError"]
          ELSE [self EXCEPT !.image_sources = Append(@, src[1])]
  ELSE self

\* HTMLParser.handle_endtag is not overridden: it does nothing
IS_handle_endtag(self, tag) == self

\* HTMLParser.handle_startendtag, inherited: start handler, then end handler
IS_handle_startendtag(self, tag, attrs) ==
  LET s1 == IS_handle_starttag(self, tag, attrs)
  IN IF s1.exc # "none" THEN s1 ELSE IS_handle_endtag(s1, tag)

(* ------------------------------ state ---------------------------------- *)

VARIABLES
  \* find_link_images(html): the document, the number of tag events fed,
  \* the parser's fields, the position of the call and its return value
  html, pos, linkstack, images, ils_pc, link_images,
  \* get_all_posts: the listing the server holds, the requests made so far,
  \* the locals data, items and has_more, the position of the call and its
  \* return value
  pages, requests, data, items, has_more, gp_pc, posts,
  \* call_json: whether the response objects of the Python that runs the
  \* program have the method readall (those of Python 3.2 to 3.4 have it,
  \* those of later versions do not)
  readall,
  \* follow_image_embeds(url): the response urlopen gives for url, the
  \* number of response.read() calls, the ImageSearcher's field and the
  \* number of tag events fed to it, the position of the call and its
  \* return value
  url, response, body_reads, image_sources, bpos, fe_pc, ret,
  \* the urlopen calls made so far by follow_image_embeds and by
  \* download_url_to_directory, each with the function and the URL
  fetches,
  \* prettyprint_size(num_bytes): the argument, the loop's factor (as the
  \* power of 1000 it is) and place in units, the position of the call and
  \* its return value
  num_bytes, factor, unit_i, pp_pc, pretty,
  \* download_url_to_directory(url, directory): whether the directory
  \* exists and the files it holds, the locals url and data, the position
  \* of the call, its return value and the files written so far
  dir_exists, files, dl_url, dl_data, dl_pc, size, written,
  \* main: the destination argument, the position of main, the lookup
  \* requests made, the posts and links the generators have consumed, the
  \* URLs the generator has yielded and the lines printed
  destination, cr_pc, lookups, post_i, link_i, yielded, printed

scanVars == <<html, pos, linkstack, images, ils_pc, link_images>>

pageVars == <<pages, requests, data, items, has_more, gp_pc, posts, readall>>

resVars == <<url, response, body_reads, image_sources, bpos, fe_pc, ret>>

sizeVars == <<num_bytes, factor, unit_i, pp_pc, pretty>>

downloadVars == <<dir_exists, files, dl_url, dl_data, dl_pc, size, written>>

crawlVars == <<destination, cr_pc, lookups, post_i, link_i, yielded, printed>>

\* what the scanner, the paginator and the resolver never touch
\* (the resolver but for fetches)
restVars == <<fetches, sizeVars, downloadVars, crawlVars>>

vars == <<scanVars, pageVars, resVars, restVars>>

\* the exceptions a call can end with
Exceptions ==
  {"IndexError", "AttributeError", "KeyError", "URLError", "OSError",
   "ValueError"}

\* no find_link_images call is in progress
IdleScan ==
  /\ html = <<>>
  /\ pos = 0
  /\ linkstack = <<>>
  /\ images = <<>>
  /\ ils_pc = "idle"
  /\ link_images = <<>>

\* no get_all_posts call is in progress
IdlePages ==
  /\ pages = <<>>
  /\ requests = <<>>
  /\ data = <<>>
  /\ items = <<>>
  /\ has_more = FALSE
  /\ gp_pc = "idle"
  /\ posts = <<>>
  /\ readall = TRUE

\* no follow_image_embeds call is in progress
IdleResolve ==
  /\ url = <<>>
  /\ response = <<>>
  /\ body_reads = 0
  /\ image_sources = <<>>
  /\ bpos = 0
  /\ fe_pc = "idle"
  /\ ret = <<>>

\* no prettyprint_size call is in progress
IdleSize ==
  /\ num_bytes = <<>>
  /\ factor = 0
  /\ unit_i = 0
  /\ pp_pc = "idle"
  /\ pretty = <<>>

\* no download_url_to_directory call has been made
IdleDownload ==
  /\ dir_exists = FALSE
  /\ files = <<>>
  /\ dl_url = <<>>
  /\ dl_data = <<>>
  /\ dl_pc = "idle"
  /\ size = 0
  /\ written = <<>>

\* main is not running
IdleCrawl ==
  /\ destination = "none"
  /\ cr_pc = "idle"
  /\ lookups = <<>>
  /\ post_i = 0
  /\ link_i = 0
  /\ yielded = <<>>
  /\ printed = <<>>

(* ------------------------- find_link_images ---------------------------- *)

ILS_self == [linkstack |-> linkstack, images |-> images, exc |-> "none"]

\* the effect of one handler call on the parser and on the call
ILS_after(s) ==
  /\ linkstack' = s.linkstack
  /\ images' = s.images
  /\ IF s.exc = "none"
     THEN pos' = pos + 1 /\ ils_pc' = "feed"
     ELSE pos' = pos /\ ils_pc' = s.exc
  /\ UNCHANGED <<html, link_images, pageVars, resVars, restVars>>

\* parser.feed(html) reports a start tag
FeedStartTag ==
  /\ ils_pc = "feed"
  /\ pos < Len(html)
  /\ html[pos + 1].kind = "start"
  /\ ILS_after(ILS_handle_starttag(ILS_self, html[pos + 1].tag, html[pos + 1].attrs))

\* parser.feed(html) reports an end tag
FeedEndTag ==
  /\ ils_pc = "feed"
  /\ pos < Len(html)
  /\ html[pos + 1].kind = "end"
  /\ ILS_after(ILS_handle_endtag(ILS_self, html[pos + 1].tag))

\* parser.feed(html) reports a self-closing tag
FeedStartEndTag ==
  /\ ils_pc = "feed"
  /\ pos < Len(html)
  /\ html[pos + 1].kind = "startend"
  /\ ILS_after(ILS_handle_startendtag(ILS_self, html[pos + 1].tag, html[pos + 1].attrs))

\* feed has consumed the document: return parser.images
FindLinkImagesReturn ==
  /\ ils_pc = "feed"
  /\ pos = Len(html)
  /\ ils_pc' = "returned"
  /\ link_images' = images
  /\ UNCHANGED <<html, pos, linkstack, images, pageVars, resVars, restVars>>

InitScan ==
  /\ html \in PostDocs
  /\ pos = 0
  /\ linkstack = ILS_init.linkstack
  /\ images = ILS_init.images
  /\ ils_pc = "feed"
  /\ link_images = <<>>
  /\ IdlePages
  /\ IdleResolve
  /\ fetches = <<>>
  /\ IdleSize
  /\ IdleDownload
  /\ IdleCrawl

NextScan ==
  \/ FeedStartTag
  \/ FeedEndTag
  \/ FeedStartEndTag
  \/ FindLinkImagesReturn

SpecScan == InitScan /\ [][NextScan]_vars

(* ---------------------------- get_all_posts ---------------------------- *)

\* the posts of the blog, opaque to the paginator
Posts == {"post1", "post2"}

\* a fetch that fails in transport
Failure == [error |-> "URLError"]

\* the item lists of a page: up to MaxItems posts, no post twice
ItemLists ==
  {l \in SeqsUpTo(Posts, MaxItems) :
     \A i, j \in 1..Len(l) : l[i] = l[j] => i = j}

\* an answer whose body is not JSON
NotJson == [text |-> "<html>"]

\* urlopen raises for the request
Failed(resp) == "error" \in DOMAIN resp

\* lines 34-37: what call_json gives for the server's answer to its
\* request.  urlopen raises on a transport failure; response.readall()
\* raises AttributeError where the response has no such method; json.loads
\* raises ValueError for a body that is not JSON.
call_json(answer) ==
  IF Failed(answer) THEN answer
  ELSE IF ~readall THEN [error |-> "AttributeError"]
  ELSE IF "text" \in DOMAIN answer THEN [error |-> "ValueError"]
  ELSE answer

\* A JSON object is a function on the keys it has, as a Python dict is.
\* The listing pages a server can hold at place k of its chain: with or
\* without items, with or without the token of the page after it, a body
\* that is not JSON, or a failing request.
PageObjects(k) ==
  {[items |-> l, nextPageToken |-> k + 1] : l \in ItemLists}
    \cup {[items |-> l] : l \in ItemLists}
    \cup {[nextPageToken |-> k + 1], <<>>, NotJson, Failure}

\* the listings of exactly n pages
RECURSIVE ListingsOf(_)
ListingsOf(n) ==
  IF n = 0 THEN {<<>>}
  ELSE {Append(ps, p) : ps \in ListingsOf(n - 1), p \in PageObjects(n)}

\* the listings a server can hold: one to MaxPages pages
Listings == UNION {ListingsOf(n) : n \in 1..MaxPages}

\* API_URL_BASE + "/blogs/{0}/posts?key={1}"
PostsUrl == [path |-> "posts"]

\* API_URL_BASE + "/blogs/{0}/posts?key={1}&pageToken={2}"
PostsUrlWithToken(token) == [path |-> "posts", pageToken |-> token]

\* what the server answers to a listing request: the first page, the page
\* the token names, or an error for a token that names no page
Served(listing_url) ==
  LET k == IF "pageToken" \in DOMAIN listing_url
           THEN listing_url.pageToken ELSE 1
  IN IF k \in 1..Len(pages) THEN pages[k] ELSE Failure

\* lines 51 and 57: call_json(listing_url)
Respond(listing_url) == call_json(Served(listing_url))

\* line 59: items += data["items"]
ExtendItems(list, more) == list \o more

\* lines 50-53: the first request
GetAllPostsFirst ==
  /\ gp_pc = "start"
  /\ requests' = Append(requests, PostsUrl)
  /\ LET resp == Respond(PostsUrl)
     IN IF Failed(resp)
        THEN gp_pc' = resp.error /\ UNCHANGED <<data, items, has_more>>
        ELSE /\ data' = resp
             /\ IF "items" \in DOMAIN resp
                THEN items' = resp.items /\ has_more' = TRUE /\ gp_pc' = "loop"
                ELSE gp_pc' = "KeyError" /\ UNCHANGED <<items, has_more>>
  /\ UNCHANGED <<pages, posts, readall, scanVars, resVars, restVars>>

\* lines 54-61: one iteration of the while loop; the except clause covers
\* both data["nextPageToken"] and the later data["items"]
GetAllPostsLoop ==
  /\ gp_pc = "loop"
  /\ has_more
  /\ IF "nextPageToken" \notin DOMAIN data
     THEN has_more' = FALSE /\ UNCHANGED <<requests, data, items, gp_pc>>
     ELSE LET listing_url == PostsUrlWithToken(data.nextPageToken)
              resp == Respond(listing_url)
          IN /\ requests' = Append(requests, listing_url)
             /\ IF Failed(resp)
                THEN gp_pc' = resp.error /\ UNCHANGED <<data, items, has_more>>
                ELSE /\ data' = resp
                     /\ gp_pc' = "loop"
                     /\ IF "items" \in DOMAIN resp
                        THEN /\ items' = ExtendItems(items, resp.items)
                             /\ has_more' = TRUE
                        ELSE has_more' = FALSE /\ items' = items
  /\ UNCHANGED <<pages, posts, readall, scanVars, resVars, restVars>>

\* line 62: return items
GetAllPostsReturn ==
  /\ gp_pc = "loop"
  /\ ~has_more
  /\ gp_pc' = "returned"
  /\ posts' = items
  /\ UNCHANGED <<pages, requests, data, items, has_more, readall, scanVars,
               resVars, restVars>>

InitPages ==
  /\ pages \in Listings
  /\ readall \in BOOLEAN
  /\ requests = <<>>
  /\ data = <<>>
  /\ items = <<>>
  /\ has_more = FALSE
  /\ gp_pc = "start"
  /\ posts = <<>>
  /\ IdleScan
  /\ IdleResolve
  /\ fetches = <<>>
  /\ IdleSize
  /\ IdleDownload
  /\ IdleCrawl

NextPages ==
  \/ GetAllPostsFirst
  \/ GetAllPostsLoop
  \/ GetAllPostsReturn

SpecPages == InitPages /\ [][NextPages]_vars

(* ------------------- images_in_html, follow_image_embeds --------------- *)

\* the candidate links that are resolved
CandidateUrls == {u_cgif, u_phtml}

\* the tag events the linked documents are made of: <img src="b.png">,
\* <img src="t.png"/>, <img alt="b.png">, <img src>, <p>, </p>
BodyEvents ==
  {StartTag("img", << <<"src", u_bpng>> >>),
   StartEndTag("img", << <<"src", u_tpng>> >>),
   StartTag("img", << <<"alt", u_bpng>> >>),
   StartTag("img", << <<"src", None>> >>),
   StartTag("p", <<>>),
   EndTag("p")}

\* the Content-Type headers a response can carry, or none
HeaderSets ==
  {[h \in {"Content-Type"} |-> ct] :
     ct \in {ct_image_jpeg, s_image, ct_images_png, ct_text_html, ct_Image_png}}
    \cup {<<>>}

\* what urlopen(url) can give: a transport failure, or a response with
\* headers and a body
Responses ==
  {[headers |-> hs, body |-> b] :
     hs \in HeaderSets, b \in SeqsUpTo(BodyEvents, MaxBodyLen)}
    \cup {Failure}

\* response.info()[name]: the header's value, None when it is absent
HeaderGet(headers, name) ==
  IF name \in DOMAIN headers THEN headers[name] ELSE None

\* the test with a slip: the whole content type must be "image"
IsImageType_whole(content_type) == content_type = s_image

\* line 134: content_type.startswith("image")
IsImageType(content_type) == StartsWith(content_type, s_image)

\* a urlopen(url) call made by the function named
Fetch(function, u) == [by |-> function, url |-> u]

\* lines 132-137 and 86-87: open the URL and classify the response; an
\* image is returned at once, anything else is read and given to a new
\* ImageSearcher
FollowImageEmbeds ==
  /\ fe_pc = "start"
  /\ IF Failed(response)
     THEN fe_pc' = "URLError" /\ UNCHANGED <<ret, body_reads, image_sources>>
     ELSE LET content_type == HeaderGet(response.headers, "Content-Type")
          IN IF content_type = None
             THEN /\ fe_pc' = "AttributeError"
                  /\ UNCHANGED <<ret, body_reads, image_sources>>
             ELSE IF IsImageType(content_type)
                  THEN /\ ret' = url
                       /\ fe_pc' = "returned"
                       /\ UNCHANGED <<body_reads, image_sources>>
                  ELSE /\ body_reads' = body_reads + 1
                       /\ image_sources' = IS_init.image_sources
                       /\ fe_pc' = "feed"
                       /\ UNCHANGED ret
  /\ fetches' = Append(fetches, Fetch("follow_image_embeds", url))
  /\ UNCHANGED <<url, response, bpos, scanVars, pageVars>>
  /\ UNCHANGED <<sizeVars, downloadVars, crawlVars>>

IS_self == [image_sources |-> image_sources, exc |-> "none"]

\* the effect of one handler call on the parser and on the call
IS_after(s) ==
  /\ image_sources' = s.image_sources
  /\ IF s.exc = "none"
     THEN bpos' = bpos + 1 /\ fe_pc' = "feed"
     ELSE bpos' = bpos /\ fe_pc' = s.exc
  /\ UNCHANGED <<url, response, body_reads, ret, scanVars, pageVars, restVars>>

\* line 88: parser.feed(encoded) reports a start tag
ImagesStartTag ==
  /\ fe_pc = "feed"
  /\ bpos < Len(response.body)
  /\ response.body[bpos + 1].kind = "start"
  /\ IS_after(IS_handle_starttag(IS_self, response.body[bpos + 1].tag,
                                 response.body[bpos + 1].attrs))

\* line 88: parser.feed(encoded) reports an end tag
ImagesEndTag ==
  /\ fe_pc = "feed"
  /\ bpos < Len(response.body)
  /\ response.body[bpos + 1].kind = "end"
  /\ IS_after(IS_handle_endtag(IS_self, response.body[bpos + 1].tag))

\* line 88: parser.feed(encoded) reports a self-closing tag
ImagesStartEndTag ==
  /\ fe_pc = "feed"
  /\ bpos < Len(response.body)
  /\ response.body[bpos + 1].kind = "startend"
  /\ IS_after(IS_handle_startendtag(IS_self, response.body[bpos + 1].tag,
                                    response.body[bpos + 1].attrs))

\* the return with a slip: the image source found is followed in its turn
FollowReturnFirst_hop ==
  /\ fe_pc = "feed"
  /\ bpos = Len(response.body)
  /\ IF Len(image_sources) = 0
     THEN fe_pc' = "IndexError" /\ UNCHANGED <<ret, fetches>>
     ELSE /\ fe_pc' = "returned"
          /\ ret' = image_sources[1]
          /\ fetches' = Append(fetches, Fetch("follow_image_embeds", image_sources[1]))
  /\ UNCHANGED <<url, response, body_reads, image_sources, bpos, scanVars, pageVars>>
  /\ UNCHANGED <<sizeVars, downloadVars, crawlVars>>

\* lines 89 and 138: images_in_html returns parser.image_sources and
\* follow_image_embeds returns its entry [0]
FollowReturnFirst ==
  /\ fe_pc = "feed"
  /\ bpos = Len(response.body)
  /\ IF Len(image_sources) = 0
     THEN fe_pc' = "IndexError" /\ UNCHANGED ret
     ELSE fe_pc' = "returned" /\ ret' = image_sources[1]
  /\ UNCHANGED <<url, response, body_reads, image_sources, bpos, scanVars, pageVars, restVars>>

InitResolve ==
  /\ url \in CandidateUrls
  /\ response \in Responses
  /\ body_reads = 0
  /\ image_sources = <<>>
  /\ bpos = 0
  /\ fe_pc = "start"
  /\ ret = <<>>
  /\ IdleScan
  /\ IdlePages
  /\ fetches = <<>>
  /\ IdleSize
  /\ IdleDownload
  /\ IdleCrawl

NextResolve ==
  \/ FollowImageEmbeds
  \/ ImagesStartTag
  \/ ImagesEndTag
  \/ ImagesStartEndTag
  \/ FollowReturnFirst

SpecResolve == InitResolve /\ [][NextResolve]_vars

(* --------------------------- prettyprint_size -------------------------- *)

\* A byte count is the sequence of its base-1000 digits, lowest first and
\* without leading zeros (0 is the empty sequence); the loop's factor is
\* the power of 1000 it has reached.  Python's int / int is the correctly
\* rounded double of the quotient.

\* lines 167 and 169: the base of the units
Kilo == 1000

units == <<"bytes", "Kb", "Mb", "Gb">>

\* the base-1000 digits the byte counts are made of
LimbValues == {0, 2, 5, 300, 999}

ByteCounts ==
  {n \in SeqsUpTo(LimbValues, MaxLimbs) : n = <<>> \/ n[Len(n)] # 0}

\* the number whose digits are those of n from place i up
RECURSIVE HighValue(_, _)
HighValue(n, i) ==
  IF i > Len(n) THEN 0 ELSE n[i] + Kilo * HighValue(n, i + 1)

\* line 167: num_bytes / factor < 1000, for factor = 1000^f
BelowThousand(n, f) == Len(n) <= f + 1

\* the loop step with a slip: the factor is not scaled
NextFactor_same(f) == f

\* line 169: factor *= 1000
NextFactor(f) == f + 1

\* "{0:.2f} {1}".format(num_bytes / factor, unit), for factor = 1000^f: the
\* integer part, the two decimals and the unit.  The decimals are those of
\* the double nearest to the quotient, rounded half-even on its binary
\* value: where the quotient is a tie between two hundredths, or so near
\* one that the double may fall on either side, both are possible.
Format2f(n, f, unit) ==
  LET whole == HighValue(n, f + 1)
      thousandths == IF f >= 1 /\ Len(n) >= f THEN n[f] ELSE 0
      lowzero == \A i \in 1..(f - 1) : i <= Len(n) => n[i] = 0
      near == whole >= Kilo /\ f >= 2 /\ Len(n) >= f - 1
      h == thousandths \div 10
      r == thousandths % 10
      tie == \/ r = 5 /\ (lowzero \/ (near /\ n[f - 1] = 0))
             \/ r = 4 /\ near /\ n[f - 1] = Kilo - 1
      up == r > 5 \/ (r = 5 /\ ~lowzero)
      out(d) == IF d = 100
                THEN [whole |-> whole + 1, hundredths |-> 0, unit |-> unit]
                ELSE [whole |-> whole, hundredths |-> d, unit |-> unit]
  IN IF tie THEN {out(h), out(h + 1)}
     ELSE IF up THEN {out(h + 1)} ELSE {out(h)}

\* lines 166-169: one iteration of the for loop
PrettyLoop ==
  /\ pp_pc = "loop"
  /\ unit_i <= Len(units)
  /\ IF BelowThousand(num_bytes, factor)
     THEN /\ pretty' \in Format2f(num_bytes, factor, units[unit_i])
          /\ pp_pc' = "returned"
          /\ UNCHANGED <<factor, unit_i>>
     ELSE /\ factor' = NextFactor(factor)
          /\ unit_i' = unit_i + 1
          /\ UNCHANGED <<pp_pc, pretty>>
  /\ UNCHANGED <<num_bytes, scanVars, pageVars, resVars>>
  /\ UNCHANGED <<fetches, downloadVars, crawlVars>>

\* lines 170-171: the loop ran out of units
PrettyTb ==
  /\ pp_pc = "loop"
  /\ unit_i > Len(units)
  /\ pretty' \in Format2f(num_bytes, factor, "Tb")
  /\ pp_pc' = "returned"
  /\ UNCHANGED <<num_bytes, factor, unit_i, scanVars, pageVars, resVars>>
  /\ UNCHANGED <<fetches, downloadVars, crawlVars>>

InitSize ==
  /\ num_bytes \in ByteCounts
  /\ factor = 0
  /\ unit_i = 1
  /\ pp_pc = "loop"
  /\ pretty = <<>>
  /\ IdleScan
  /\ IdlePages
  /\ IdleResolve
  /\ fetches = <<>>
  /\ IdleDownload
  /\ IdleCrawl

NextSize ==
  \/ PrettyLoop
  \/ PrettyTb

SpecSize == InitSize /\ [][NextSize]_vars

(* ----------------------- download_url_to_directory --------------------- *)

\* "x/a", "x/y/a", "x/"
u_x_a == <<"x", "/", "a">>
u_x_y_a == <<"x", "/", "y", "/", "a">>
u_x_ == <<"x", "/">>

\* the URLs that are downloaded
DownloadUrls == {u_x_a, u_x_y_a, u_bpng, u_x_}

\* the bodies the server sends, as bytes
Bodies == {<<1>>, <<2, 2>>}

\* what urlopen(url) can give the downloader
DownloadResponses == {[body |-> b] : b \in Bodies} \cup {Failure}

\* str.find(ch): the 0-based place of the first ch in string, -1 if none
find_first(string, ch) ==
  LET places == {i \in 1..Len(string) : string[i] = ch}
  IN IF places = {} THEN -1
     ELSE (CHOOSE i \in places : \A j \in places : i <= j) - 1

\* str.rfind(ch): the 0-based place of the last ch in string, -1 if none
rfind(string, ch) ==
  LET places == {i \in 1..Len(string) : string[i] = ch}
  IN IF places = {} THEN -1
     ELSE (CHOOSE i \in places : \A j \in places : i >= j) - 1

\* string[start:], with start counted from 0
SliceFrom(string, start) == SubSeq(string, start + 1, Len(string))

\* the directory after the file called name got the content given
PutFile(dir, name, content) ==
  [n \in DOMAIN dir \cup {name} |-> IF n = name THEN content ELSE dir[n]]

\* lines 153-161, the whole call.  u is the URL, resp what urlopen gives
\* for it, and stored the number of bytes the disk takes before it fails
\* (all of them when the write succeeds).  urlopen is called whatever the
\* URL, and raises AttributeError for None.  open(outpath, 'wb') fails
\* when the directory is missing or the name is empty, and creates or
\* truncates the file otherwise.
DownloadUrlToDirectory(u, resp, stored) ==
  /\ dl_url' = u
  /\ fetches' = Append(fetches, Fetch("download_url_to_directory", u))
  /\ IF u = None
     THEN /\ dl_pc' = "AttributeError"
          /\ UNCHANGED <<dl_data, files, size, written>>
     ELSE IF Failed(resp)
     THEN /\ dl_pc' = "URLError"
          /\ UNCHANGED <<dl_data, files, size, written>>
     ELSE LET firstslash == rfind(u, "/")
              name == SliceFrom(u, firstslash + 1)
          IN /\ dl_data' = resp.body
             /\ IF ~dir_exists \/ name = <<>>
                THEN /\ dl_pc' = "OSError"
                     /\ UNCHANGED <<files, size, written>>
                ELSE IF stored < Len(resp.body)
                     THEN /\ files' = PutFile(files, name,
                                             SubSeq(resp.body, 1, stored))
                          /\ dl_pc' = "OSError"
                          /\ UNCHANGED <<size, written>>
                     ELSE /\ files' = PutFile(files, name, resp.body)
                          /\ size' = Len(resp.body)
                          /\ dl_pc' = "returned"
                          /\ written' = Append(written,
                               [name |-> name, data |-> resp.body])
  /\ UNCHANGED dir_exists

\* the outcomes of writing a body: any number of its bytes stored
Stored(resp) == IF Failed(resp) THEN {0} ELSE 0..Len(resp.body)

\* a caller downloads one more URL
Download ==
  /\ dl_pc # "idle"
  /\ Len(fetches) < MaxDownloads
  /\ \E u \in DownloadUrls, resp \in DownloadResponses :
       \E stored \in Stored(resp) : DownloadUrlToDirectory(u, resp, stored)
  /\ UNCHANGED <<scanVars, pageVars, resVars, sizeVars, crawlVars>>

InitDownload ==
  /\ dir_exists \in BOOLEAN
  /\ files = <<>>
  /\ dl_url = <<>>
  /\ dl_data = <<>>
  /\ dl_pc = "ready"
  /\ size = 0
  /\ written = <<>>
  /\ fetches = <<>>
  /\ IdleScan
  /\ IdlePages
  /\ IdleResolve
  /\ IdleSize
  /\ IdleCrawl

NextDownload == Download

SpecDownload == InitDownload /\ [][NextDownload]_vars

(* ---------------- linked_image_urls, flatten_once, main ---------------- *)

\* the HTML of the crawled posts: one link around an image, one around a
\* self-closing image, two links, no link, a stray </a>
CrawlDocs ==
  {Wrapped(<<u_cgif>>),
   <<AnchorOpen(u_bpng), ImgSelfClosed, EndTag("a")>>,
   Wrapped(<<u_bpng, u_cgif>>),
   <<StartTag("div", <<>>)>>,
   <<EndTag("a")>>}

\* the post objects of the listing: with their content, or without the field
CrawlPosts == {[content |-> d] : d \in CrawlDocs} \cup {<<>>}

\* a listing page that is followed by another
InnerPages(k) ==
  {[items |-> <<p>>, nextPageToken |-> k + 1] : p \in CrawlPosts}

\* a listing page that ends the listing: the last page, a page without
\* items, a body that is not JSON, or a failing request
LastPages(k) ==
  {[items |-> <<p>>] : p \in CrawlPosts}
    \cup {[nextPageToken |-> k + 1], NotJson, Failure}

RECURSIVE InnerChains(_)
InnerChains(n) ==
  IF n = 0 THEN {<<>>}
  ELSE {Append(ps, p) : ps \in InnerChains(n - 1), p \in InnerPages(n)}

\* the listings of the crawled blogs
CrawlListings ==
  UNION {{Append(ps, p) : ps \in InnerChains(n - 1), p \in LastPages(n)} :
           n \in 1..MaxCrawlPages}

\* API_URL_BASE + "/blogs/byurl?url={0}&key={1}"
ByUrl == [path |-> "byurl"]

\* what the server answers to the lookup: the blog's id, an object
\* without it, a body that is not JSON, or a failure
LookupResponses == {[id |-> "1"], <<>>, NotJson, Failure}

\* what urlopen gives the resolver for a candidate: c.gif is served as an
\* image and every other link as a page around <img src="t.png"/>, unless
\* the request fails, the response has no Content-Type or the page has no
\* image
CrawlResponses(u) ==
  {IF u = u_cgif
   THEN [headers |-> [h \in {"Content-Type"} |-> ct_image_jpeg], body |-> <<>>]
   ELSE [headers |-> [h \in {"Content-Type"} |-> ct_text_html],
         body |-> <<StartTag("p", <<>>), EndTag("p"),
                    StartEndTag("img", << <<"src", u_tpng>> >>)>>]}
    \cup {Failure,
          [headers |-> <<>>, body |-> <<>>],
          [headers |-> [h \in {"Content-Type"} |-> ct_text_html],
           body |-> <<StartTag("p", <<>>)>>]}

\* what urlopen gives the downloader for a resolved URL
CrawlDownloads(u) ==
  {[body |-> IF u = u_cgif THEN <<1>> ELSE <<2, 2>>], Failure}

\* the base-1000 digits of a number, lowest first
RECURSIVE Limbs(_)
Limbs(n) == IF n = 0 THEN <<>> ELSE <<n % Kilo>> \o Limbs(n \div Kilo)

\* the link that flatten_once hands on after idx links of the list
CurrentLink_back(list, idx) == list[Len(list) - idx]

\* lines 126-127: for item in iterable: yield item
CurrentLink(list, idx) == list[idx + 1]

\* lines 179, 142 and 40-44: main calls linked_image_urls, which looks the
\* blog up
GetBlogId ==
  /\ cr_pc = "start"
  /\ lookups' = Append(lookups, ByUrl)
  /\ \E answer \in LookupResponses :
       LET resp == call_json(answer)
       IN IF Failed(resp) THEN cr_pc' = resp.error /\ UNCHANGED gp_pc
          ELSE IF "id" \notin DOMAIN resp
               THEN cr_pc' = "KeyError" /\ UNCHANGED gp_pc
               ELSE cr_pc' = "get_all_posts" /\ gp_pc' = "start"
  /\ UNCHANGED <<pages, requests, data, items, has_more, posts, readall>>
  /\ UNCHANGED <<destination, post_i, link_i, yielded, printed>>
  /\ UNCHANGED <<scanVars, resVars, fetches, sizeVars, downloadVars>>

\* the return with a slip: the generators are handed out over the posts
\* of the first page, while the listing is still being fetched
LinkedImageUrlsReturn_early ==
  /\ cr_pc = "get_all_posts"
  /\ gp_pc = "loop"
  /\ cr_pc' = "main"
  /\ posts' = items
  /\ UNCHANGED <<pages, requests, data, items, has_more, gp_pc, readall>>
  /\ UNCHANGED <<destination, lookups, post_i, link_i, yielded, printed>>
  /\ UNCHANGED <<scanVars, resVars, fetches, sizeVars, downloadVars>>

\* lines 144-147: the generators are built over the posts and returned;
\* nothing of them runs yet
LinkedImageUrlsReturn ==
  /\ cr_pc = "get_all_posts"
  /\ gp_pc = "returned"
  /\ cr_pc' = "main"
  /\ UNCHANGED <<destination, lookups, post_i, link_i, yielded, printed>>
  /\ UNCHANGED <<scanVars, pageVars, resVars, fetches, sizeVars, downloadVars>>

\* an exception of a callee is caught nowhere: it ends main
Propagate ==
  /\ LET exc == IF cr_pc = "get_all_posts" THEN gp_pc
                ELSE IF cr_pc = "find_link_images" THEN ils_pc
                ELSE IF cr_pc = "follow_image_embeds" THEN fe_pc
                ELSE "none"
     IN /\ exc \in Exceptions
        /\ cr_pc' = exc
  /\ UNCHANGED <<destination, lookups, post_i, link_i, yielded, printed>>
  /\ UNCHANGED <<scanVars, pageVars, resVars, fetches, sizeVars, downloadVars>>

\* lines 181-185 and 189: with a destination that is no directory yet,
\* os.makedirs creates it or fails; then the for loop asks image_links for
\* its first element
MainDestination ==
  /\ cr_pc = "main"
  /\ IF destination = "none" \/ dir_exists
     THEN cr_pc' = "next" /\ UNCHANGED dir_exists
     ELSE \E made \in BOOLEAN :
            IF made THEN cr_pc' = "next" /\ dir_exists' = TRUE
            ELSE cr_pc' = "OSError" /\ UNCHANGED dir_exists
  /\ UNCHANGED <<files, dl_url, dl_data, dl_pc, size, written>>
  /\ UNCHANGED <<destination, lookups, post_i, link_i, yielded, printed>>
  /\ UNCHANGED <<scanVars, pageVars, resVars, fetches, sizeVars>>

\* lines 126-127 and 147: the list in hand has a link left; flatten_once
\* yields it and the outer generator calls follow_image_embeds(link)
NextLink ==
  /\ cr_pc = "next"
  /\ link_i < Len(link_images)
  /\ link_i' = link_i + 1
  /\ url' = CurrentLink(link_images, link_i)
  /\ response' \in CrawlResponses(url')
  /\ body_reads' = 0
  /\ image_sources' = <<>>
  /\ bpos' = 0
  /\ fe_pc' = "start"
  /\ ret' = <<>>
  /\ cr_pc' = "follow_image_embeds"
  /\ UNCHANGED <<destination, lookups, post_i, yielded, printed>>
  /\ UNCHANGED <<scanVars, pageVars, fetches, sizeVars, downloadVars>>

\* lines 125 and 144-145: the list in hand is used up; the next post is
\* taken, post["content"] is read and find_link_images is called on it
NextPost ==
  /\ cr_pc = "next"
  /\ link_i = Len(link_images)
  /\ post_i < Len(posts)
  /\ post_i' = post_i + 1
  /\ LET post == posts[post_i + 1]
     IN IF "content" \notin DOMAIN post
        THEN cr_pc' = "KeyError" /\ UNCHANGED scanVars
        ELSE /\ html' = post.content
             /\ pos' = 0
             /\ linkstack' = ILS_init.linkstack
             /\ images' = ILS_init.images
             /\ ils_pc' = "feed"
             /\ cr_pc' = "find_link_images"
             /\ UNCHANGED link_images
  /\ UNCHANGED <<destination, lookups, link_i, yielded, printed>>
  /\ UNCHANGED <<pageVars, resVars, fetches, sizeVars, downloadVars>>

\* line 126: flatten_once starts on the list find_link_images returned
FlattenList ==
  /\ cr_pc = "find_link_images"
  /\ ils_pc = "returned"
  /\ link_i' = 0
  /\ cr_pc' = "next"
  /\ UNCHANGED <<destination, lookups, post_i, yielded, printed>>
  /\ UNCHANGED <<scanVars, pageVars, resVars, fetches, sizeVars, downloadVars>>

\* line 125: no post is left, the generators are exhausted and the for
\* loop of main ends
StopIteration ==
  /\ cr_pc = "next"
  /\ link_i = Len(link_images)
  /\ post_i = Len(posts)
  /\ cr_pc' = "done"
  /\ UNCHANGED <<destination, lookups, post_i, link_i, yielded, printed>>
  /\ UNCHANGED <<scanVars, pageVars, resVars, fetches, sizeVars, downloadVars>>

\* the yield with a slip: the next element is computed at once, as in a
\* list that is built before main goes through it
Yield_eager ==
  /\ cr_pc = "follow_image_embeds"
  /\ fe_pc = "returned"
  /\ yielded' = Append(yielded, ret)
  /\ cr_pc' = "next"
  /\ UNCHANGED <<destination, lookups, post_i, link_i, printed>>
  /\ UNCHANGED <<scanVars, pageVars, resVars, fetches, sizeVars, downloadVars>>

\* line 147: the generator yields what follow_image_embeds returned
Yield ==
  /\ cr_pc = "follow_image_embeds"
  /\ fe_pc = "returned"
  /\ yielded' = Append(yielded, ret)
  /\ cr_pc' = "body"
  /\ UNCHANGED <<destination, lookups, post_i, link_i, printed>>
  /\ UNCHANGED <<scanVars, pageVars, resVars, fetches, sizeVars, downloadVars>>

\* lines 189-190: print(url), and the loop asks for the next element
MainPrint ==
  /\ cr_pc = "body"
  /\ destination = "none"
  /\ printed' = Append(printed, <<yielded[Len(yielded)]>>)
  /\ cr_pc' = "next"
  /\ UNCHANGED <<destination, lookups, post_i, link_i, yielded>>
  /\ UNCHANGED <<scanVars, pageVars, resVars, fetches, sizeVars, downloadVars>>

\* lines 186-187 and 164-165: the URL is downloaded and prettyprint_size
\* is called on the size
MainDownload ==
  /\ cr_pc = "body"
  /\ destination # "none"
  /\ LET u == yielded[Len(yielded)]
     IN \E resp \in CrawlDownloads(u) :
          \E stored \in Stored(resp) : DownloadUrlToDirectory(u, resp, stored)
  /\ IF dl_pc' = "returned"
     THEN /\ cr_pc' = "prettyprint_size"
          /\ num_bytes' = Limbs(size')
          /\ factor' = 0
          /\ unit_i' = 1
          /\ pp_pc' = "loop"
          /\ pretty' = <<>>
     ELSE /\ cr_pc' = dl_pc'
          /\ UNCHANGED sizeVars
  /\ UNCHANGED <<destination, lookups, post_i, link_i, yielded, printed>>
  /\ UNCHANGED <<scanVars, pageVars, resVars>>

\* line 187: print(url, ":", size), and the loop asks for the next element
MainPrintSize ==
  /\ cr_pc = "prettyprint_size"
  /\ pp_pc = "returned"
  /\ printed' = Append(printed, <<yielded[Len(yielded)], ":", pretty>>)
  /\ cr_pc' = "next"
  /\ UNCHANGED <<destination, lookups, post_i, link_i, yielded>>
  /\ UNCHANGED <<scanVars, pageVars, resVars, fetches, sizeVars, downloadVars>>

InitCrawl ==
  /\ destination \in {"none", "dir"}
  /\ dir_exists \in (IF destination = "none" THEN {FALSE} ELSE BOOLEAN)
  /\ cr_pc = "start"
  /\ lookups = <<>>
  /\ post_i = 0
  /\ link_i = 0
  /\ yielded = <<>>
  /\ printed = <<>>
  /\ pages \in CrawlListings
  /\ readall \in BOOLEAN
  /\ requests = <<>>
  /\ data = <<>>
  /\ items = <<>>
  /\ has_more = FALSE
  /\ gp_pc = "idle"
  /\ posts = <<>>
  /\ files = <<>>
  /\ dl_url = <<>>
  /\ dl_data = <<>>
  /\ dl_pc = "idle"
  /\ size = 0
  /\ written = <<>>
  /\ fetches = <<>>
  /\ IdleScan
  /\ IdleResolve
  /\ IdleSize

NextCrawl ==
  \/ GetBlogId
  \/ GetAllPostsFirst
  \/ GetAllPostsLoop
  \/ GetAllPostsReturn
  \/ LinkedImageUrlsReturn
  \/ Propagate
  \/ MainDestination
  \/ NextLink
  \/ NextPost
  \/ FeedStartTag
  \/ FeedEndTag
  \/ FeedStartEndTag
  \/ FindLinkImagesReturn
  \/ FlattenList
  \/ StopIteration
  \/ FollowImageEmbeds
  \/ ImagesStartTag
  \/ ImagesEndTag
  \/ ImagesStartEndTag
  \/ FollowReturnFirst
  \/ Yield
  \/ MainPrint
  \/ MainDownload
  \/ PrettyLoop
  \/ MainPrintSize

SpecCrawl == InitCrawl /\ [][NextCrawl]_vars

(* ======================= properties of the scans ======================= *)

\* the string ends in png, gif, jpg or jpeg
HasImageExt(string) ==
  \E i \in 1..Len(extensions) : EndsWith(string, extensions[i])

\* the next tag event of the anchor scan, when there is one
NextEvent == html[pos + 1]

\* open anchors minus closed anchors in the first k tag events of doc
RECURSIVE AnchorDepth(_, _)
AnchorDepth(doc, k) ==
  IF k = 0 THEN 0
  ELSE AnchorDepth(doc, k - 1)
         + (IF doc[k].tag = "a" /\ doc[k].kind = "start" THEN 1
            ELSE IF doc[k].tag = "a" /\ doc[k].kind = "end" THEN -1
            ELSE 0)

\* anchor start and end tags are balanced
Balanced(doc) ==
  /\ \A k \in 1..Len(doc) : AnchorDepth(doc, k) >= 0
  /\ AnchorDepth(doc, Len(doc)) = 0

\* doc is N anchors, each with an image-file href, each directly wrapping
\* exactly one image element
IsWrappedDoc(doc) ==
  /\ Len(doc) % 3 = 0
  /\ \A n \in 1..(Len(doc) \div 3) :
       /\ doc[3 * n - 2].kind = "start"
       /\ doc[3 * n - 2].tag = "a"
       /\ Len(doc[3 * n - 2].attrs) = 1
       /\ doc[3 * n - 2].attrs[1][1] = "href"
       /\ HasImageExt(doc[3 * n - 2].attrs[1][2])
       /\ doc[3 * n - 1].tag = "img"
       /\ doc[3 * n - 1].kind \in {"start", "startend"}
       /\ doc[3 * n] = EndTag("a")

\* the hrefs of the anchors of such a document, in document order
WrappedHrefs(doc) ==
  [n \in 1..(Len(doc) \div 3) |-> doc[3 * n - 2].attrs[1][2]]

\* C1: an href that lacks an image-file extension is never in the list
\* that find_link_images returns, also when its anchor wraps an image.
ClaimC1 ==
  (ils_pc = "returned" /\ Balanced(html)) =>
    \A i \in 1..Len(link_images) : HasImageExt(link_images[i])

\* C2: an anchor end tag received while the anchor stack is empty is a
\* no-op: the stack stays empty, the image list is unchanged, nothing is
\* raised and the scan goes on with the next event.
ClaimC2 ==
  [][(/\ ils_pc = "feed"
      /\ pos < Len(html)
      /\ NextEvent.kind = "end"
      /\ NextEvent.tag = "a"
      /\ linkstack = <<>>)
       => (/\ linkstack' = <<>>
           /\ images' = images
           /\ ils_pc' = "feed"
           /\ pos' = pos + 1)]_vars

\* C3: on a document whose anchor start and end tags are balanced the scan
\* completes (raises nothing) and the anchor stack is empty at the end.
ClaimC3 ==
  Balanced(html) =>
    /\ ils_pc \notin Exceptions
    /\ (ils_pc = "returned" => linkstack = <<>>)

\* C4: on a document of N anchors, each with an image-file href and each
\* directly wrapping exactly one image, find_link_images returns exactly
\* those N hrefs, one per anchor, in document order.
TheoremC4 ==
  IsWrappedDoc(html) =>
    /\ ils_pc \in {"feed", "returned"}
    /\ (ils_pc = "returned" => link_images = WrappedHrefs(html))

\* a scan of two or more such anchors with different hrefs has returned
WitnessC4 ==
  /\ IsWrappedDoc(html)
  /\ Len(html) >= 6
  /\ ils_pc = "returned"
  /\ Len(link_images) >= 2
  /\ link_images[1] # link_images[2]

(* ===================== properties of the paginator ===================== *)

\* the response the server gave to the i-th listing request
ResponseTo(i) == Respond(requests[i])

\* the first n pages of the listing form a chain: every page but the last
\* carries items and a token, the last carries items and no token
IsChain(n) ==
  /\ n \in 1..Len(pages)
  /\ \A k \in 1..n :
       /\ ~Failed(pages[k])
       /\ "items" \in DOMAIN pages[k]
       /\ ("nextPageToken" \in DOMAIN pages[k]) <=> (k < n)

\* the items of the first n pages, page after page
RECURSIVE ChainItems(_)
ChainItems(n) ==
  IF n = 0 THEN <<>> ELSE ChainItems(n - 1) \o pages[n].items

\* C5: a page response that lacks the items field makes the pagination
\* fail: get_all_posts never returns after receiving one.
ClaimC5 ==
  gp_pc = "returned" =>
    \A i \in 1..Len(requests) : "items" \in DOMAIN ResponseTo(i)

\* C6: for a chain of P >= 1 pages, get_all_posts raises nothing and
\* returns the concatenation of the pages' items in page order.
ClaimC6 ==
  \A n \in 1..Len(pages) :
    IsChain(n) =>
      /\ gp_pc \in {"start", "loop", "returned"}
      /\ (gp_pc = "returned" => posts = ChainItems(n))

(* ====================== properties of the resolver ===================== *)

\* the media type's segment before "/", the whole of it when it has none
TopLevelToken(content_type) ==
  LET slashes == {i \in 1..Len(content_type) : content_type[i] = "/"}
  IN IF slashes = {} THEN content_type
     ELSE SubSeq(content_type, 1,
                 (CHOOSE i \in slashes : \A j \in slashes : i <= j) - 1)

\* the declared media type of the response, None when it declares none
DeclaredType == HeaderGet(response.headers, "Content-Type")

\* follow_image_embeds has got a response and classified it
Classified == fe_pc \notin {"idle", "start"} /\ ~Failed(response)

\* the response was treated as an image: the URL came back unread
TreatedAsImage == fe_pc = "returned" /\ body_reads = 0

\* the src values of the img tags of doc that have a src, in order
RECURSIVE DocSources(_)
DocSources(doc) ==
  IF doc = <<>> THEN <<>>
  ELSE LET last == doc[Len(doc)]
           src == find_key(last.attrs, "src")
       IN DocSources(SubSeq(doc, 1, Len(doc) - 1))
            \o (IF last.tag = "img" /\ last.kind \in {"start", "startend"}
                   /\ src # <<>>
                THEN <<src[1]>> ELSE <<>>)

\* the img tags of doc
ImgTags(doc) ==
  {i \in 1..Len(doc) : doc[i].tag = "img" /\ doc[i].kind \in {"start", "startend"}}

\* C7: a response is treated as an image if and only if the top-level token
\* of its declared media type is exactly "image".
ClaimC7 ==
  Classified => (TreatedAsImage <=> TopLevelToken(DeclaredType) = s_image)

\* C8: for a response whose content type is an image, follow_image_embeds
\* returns the URL unchanged, whatever the body holds, and the body is
\* neither read nor scanned.
TheoremC8 ==
  (Classified /\ TopLevelToken(DeclaredType) = s_image) =>
    /\ fe_pc = "returned"
    /\ ret = url
    /\ body_reads = 0
    /\ bpos = 0
    /\ image_sources = <<>>

\* an image/jpeg response whose body holds an img tag with a src was resolved
WitnessC8 ==
  /\ fe_pc = "returned"
  /\ ~Failed(response)
  /\ DeclaredType = ct_image_jpeg
  /\ DocSources(response.body) # <<>>
  /\ ret = url

\* C9: on a non-image response, a document with at least one img tag
\* resolves to the first entry of the First-Image Scanner's sequence, and a
\* document with no img tag fails with an index-out-of-range error.
ClaimC9 ==
  (body_reads > 0 /\ fe_pc # "feed") =>
    /\ DocSources(response.body) # <<>> =>
         (fe_pc = "returned" /\ ret = DocSources(response.body)[1])
    /\ ImgTags(response.body) = {} => fe_pc = "IndexError"

\* C10: the scan of a document never fails, an img tag without a src is
\* skipped, and the sources collected are the src values of the img tags
\* fed so far that have one, in document order.
ClaimC10 ==
  body_reads > 0 =>
    /\ ~(fe_pc \in Exceptions /\ bpos < Len(response.body))
    /\ image_sources = DocSources(SubSeq(response.body, 1, bpos))

\* C18: the first request carries no token, each later request carries the
\* token of the response before it, and get_all_posts returns exactly when
\* a response omits the token: every response but the last carried one.
ClaimC18 ==
  gp_pc = "returned" =>
    /\ "pageToken" \notin DOMAIN requests[1]
    /\ \A i \in 2..Len(requests) :
         /\ "nextPageToken" \in DOMAIN ResponseTo(i - 1)
         /\ requests[i] = PostsUrlWithToken(ResponseTo(i - 1).nextPageToken)
    /\ \A i \in 1..Len(requests) :
         ("nextPageToken" \in DOMAIN ResponseTo(i)) <=> (i < Len(requests))

\* C17: a call of follow_image_embeds issues exactly one request, to the
\* candidate URL itself; the image source it returns from an HTML page is
\* never fetched by it.
TheoremC17 ==
  /\ fe_pc = "start" => fetches = <<>>
  /\ fe_pc \notin {"idle", "start"} =>
       fetches = <<Fetch("follow_image_embeds", url)>>

\* an HTML page was resolved to the image source it embeds
WitnessC17 ==
  /\ fe_pc = "returned"
  /\ body_reads = 1
  /\ ret # url
  /\ ret = DocSources(response.body)[1]
  /\ Len(fetches) = 1

(* ================= further properties of the anchor scan =============== *)

\* the anchor elements open after the first k tag events of doc, innermost
\* last, each as the list of its href values (empty for an anchor with no
\* href); an end tag with no anchor open closes nothing
RECURSIVE OpenAnchors(_, _)
OpenAnchors(doc, k) ==
  IF k = 0 THEN <<>>
  ELSE LET before == OpenAnchors(doc, k - 1)
       IN IF doc[k].tag = "a" /\ doc[k].kind = "start"
          THEN Append(before, find_key(doc[k].attrs, "href"))
          ELSE IF doc[k].tag = "a" /\ doc[k].kind = "end" /\ before # <<>>
               THEN SubSeq(before, 1, Len(before) - 1)
               ELSE before

\* the href values of the anchor start tags among the first k tag events
AnchorHrefsSeen(doc, k) ==
  UNION {{find_key(doc[i].attrs, "href")[j] :
            j \in 1..Len(find_key(doc[i].attrs, "href"))} :
         i \in {n \in 1..k : doc[n].tag = "a"
                               /\ doc[n].kind \in {"start", "startend"}}}

\* C16: when an img start tag is seen, the href examined is the href of the
\* nearest enclosing anchor element still open at that point, also after an
\* inner anchor has been closed.
ClaimC16 ==
  (/\ ils_pc = "feed"
   /\ pos < Len(html)
   /\ NextEvent.tag = "img"
   /\ OpenAnchors(html, pos) # <<>>
   /\ OpenAnchors(html, pos)[Len(OpenAnchors(html, pos))] # <<>>
   /\ OpenAnchors(html, pos)[Len(OpenAnchors(html, pos))][1] # None)
    => /\ linkstack # <<>>
       /\ linkstack[Len(linkstack)]
            = OpenAnchors(html, pos)[Len(OpenAnchors(html, pos))][1]

\* C20: every entry of the recorded image list is the href of an anchor
\* start tag seen earlier in the document, the list has at most one entry
\* per img tag seen, and it only grows by appending one entry.
TheoremC20 ==
  /\ [](ils_pc # "idle" =>
          /\ \A i \in 1..Len(images) : images[i] \in AnchorHrefsSeen(html, pos)
          /\ Len(images) <= Cardinality(ImgTags(SubSeq(html, 1, pos))))
  /\ [][\/ images' = images
        \/ /\ Len(images') = Len(images) + 1
           /\ SubSeq(images', 1, Len(images)) = images]_vars

\* a scan has recorded two different links and reached the document's end
WitnessC20 ==
  /\ ils_pc = "feed"
  /\ Len(images) >= 2
  /\ images[1] # images[2]
  /\ pos = Len(html)

(* ================== properties of the size formatting ================== *)

\* the byte count is below 1000^k
BelowPower(n, k) == Len(n) <= k

\* the first of bytes, Kb, Mb, Gb, Tb under which the magnitude is below
\* 1000, Tb when there is none
ExpectedUnit(n) ==
  LET names == <<"bytes", "Kb", "Mb", "Gb", "Tb">>
      fits == {k \in 1..5 : BelowPower(n, k)}
  IN IF fits = {} THEN "Tb"
     ELSE names[CHOOSE k \in fits : \A j \in fits : k <= j]

\* 2,300,000
n_2300000 == <<0, 300, 2>>

\* C15: the unit chosen is the first of bytes, Kb, Mb, Gb, Tb under which
\* the magnitude is below 1000, Tb from 1000 Gb on; 2,300,000 bytes is
\* reported as 2.30 Mb.
TheoremC15 ==
  pp_pc = "returned" =>
    /\ pretty.unit = ExpectedUnit(num_bytes)
    /\ num_bytes = n_2300000 =>
         pretty = [whole |-> 2, hundredths |-> 30, unit |-> "Mb"]

\* 2,300,000 bytes has been formatted
WitnessC15 ==
  /\ pp_pc = "returned"
  /\ num_bytes = n_2300000
  /\ pretty.unit = "Mb"

(* ===================== properties of the downloader ==================== *)

\* the part of the URL after its last "/", the whole of it when it has none
AfterLastSlash(u) ==
  LET k == CHOOSE k \in 0..Len(u) :
             /\ \A i \in (k + 1)..Len(u) : u[i] # "/"
             /\ k = 0 \/ u[k] = "/"
  IN SubSeq(u, k + 1, Len(u))

\* the data of the most recent download written under the name
LastWritten(name) ==
  LET places == {i \in 1..Len(written) : written[i].name = name}
  IN written[CHOOSE i \in places : \A j \in places : i >= j].data

\* C14: a download writes the fetched bytes under the part of the URL after
\* its last "/" and returns their number, leaving the other files as they
\* are; after successful downloads only, every file holds the bytes of the
\* most recent download with its name.
TheoremC14 ==
  /\ [][written' # written =>
          /\ written' = Append(written, [name |-> AfterLastSlash(dl_url'),
                                         data |-> dl_data'])
          /\ files' = PutFile(files, AfterLastSlash(dl_url'), dl_data')
          /\ size' = Len(dl_data')]_vars
  /\ []((dl_pc # "idle" /\ Len(written) = Len(fetches)) =>
          /\ DOMAIN files = {written[i].name : i \in 1..Len(written)}
          /\ \A name \in DOMAIN files : files[name] = LastWritten(name))

\* a later download has overwritten an earlier one of the same name, from
\* another URL and with other bytes
WitnessC14 ==
  /\ dl_pc = "returned"
  /\ Len(written) = Len(fetches)
  /\ Len(written) >= 2
  /\ written[1].name = written[2].name
  /\ written[1].data # written[2].data
  /\ fetches[1].url # fetches[2].url
  /\ Cardinality(DOMAIN files) >= 2

(* ======================= properties of the crawl ======================= *)

\* the searcher after the tag events of doc from place k on
RECURSIVE ScanFrom(_, _, _)
ScanFrom(self, doc, k) ==
  IF k > Len(doc) \/ self.exc # "none" THEN self
  ELSE LET e == doc[k]
           s1 == IF e.kind = "start"
                 THEN ILS_handle_starttag(self, e.tag, e.attrs)
                 ELSE IF e.kind = "end" THEN ILS_handle_endtag(self, e.tag)
                 ELSE ILS_handle_startendtag(self, e.tag, e.attrs)
       IN ScanFrom(s1, doc, k + 1)

\* the scan of a post's content
ScanOf(post) == ScanFrom(ILS_init, post.content, 1)

\* the post cannot be scanned: it has no content, or its scan raises
PostFails(post) ==
  "content" \notin DOMAIN post \/ ScanOf(post).exc # "none"

\* the candidate links of the posts from place i on, in post order and
\* within-post link order, up to the first post that cannot be scanned
RECURSIVE Candidates(_, _)
Candidates(ps, i) ==
  IF i > Len(ps) \/ PostFails(ps[i]) THEN <<>>
  ELSE ScanOf(ps[i]).images \o Candidates(ps, i + 1)

\* the requests of the resolver, in the order they were made
ResolveRequests ==
  SelectSeq(fetches, LAMBDA f : f.by = "follow_image_embeds")

\* the requests of the downloader, in the order they were made
DownloadRequests ==
  SelectSeq(fetches, LAMBDA f : f.by = "download_url_to_directory")

\* what a candidate resolves to, given the response to its request
ResolutionOf(u, resp) ==
  IF StartsWith(HeaderGet(resp.headers, "Content-Type"), s_image) THEN u
  ELSE DocSources(resp.body)[1]

\* C11: the k-th URL yielded is the resolution of the k-th candidate in
\* post order, then within-post link order; the posts are gone through in
\* order, the candidates are resolved one by one in that order, none
\* twice, and a crawl that ends has resolved and yielded all of them.
TheoremC11 ==
  /\ [](LET cands == Candidates(posts, 1)
        IN /\ Len(ResolveRequests) <= Len(cands)
           /\ \A k \in 1..Len(ResolveRequests) :
                ResolveRequests[k].url = cands[k]
           /\ Len(yielded) <= Len(ResolveRequests)
           /\ Len(ResolveRequests) <= Len(yielded) + 1
           /\ cr_pc = "done" =>
                /\ \A i \in 1..Len(posts) : ~PostFails(posts[i])
                /\ Len(yielded) = Len(cands))
  /\ [][/\ post_i' >= post_i
        /\ yielded' # yielded =>
             /\ url = Candidates(posts, 1)[Len(yielded) + 1]
             /\ url \in {ScanOf(posts[post_i]).images[j] :
                           j \in 1..Len(ScanOf(posts[post_i]).images)}
             /\ yielded' = Append(yielded, ResolutionOf(url, response))]_vars

\* a crawl of two posts has ended after yielding three URLs, the first
\* one found in a linked page and the second one a linked image
WitnessC11 ==
  /\ cr_pc = "done"
  /\ Len(posts) = 2
  /\ Len(yielded) = 3
  /\ yielded[1] = u_tpng
  /\ yielded[2] = u_cgif
  /\ Candidates(posts, 1) = <<u_bpng, u_cgif, u_cgif>>

\* C12: the sequence is lazy.  Nothing is scanned or resolved before main
\* asks for the first element; the request that resolves the (k+1)-th
\* candidate is issued only after main has received the k-th element,
\* finished with it (printed its line) and asked for the next; and posts
\* are scanned only while main waits for an element.
TheoremC12 ==
  /\ [](/\ Len(ResolveRequests) <= Len(printed) + 1
        /\ Len(yielded) <= Len(printed) + 1
        /\ cr_pc \in {"start", "get_all_posts", "main"} =>
             fetches = <<>> /\ ils_pc = "idle" /\ post_i = 0)
  /\ [][/\ ResolveRequests' # ResolveRequests =>
             /\ cr_pc = "follow_image_embeds"
             /\ Len(ResolveRequests) = Len(yielded)
             /\ Len(printed) = Len(yielded)
        /\ ils_pc' # ils_pc =>
             /\ Len(ResolveRequests) = Len(yielded)
             /\ Len(printed) = Len(yielded)]_vars

\* the second candidate is being resolved after main has printed the
\* first element, while a third candidate is still untouched
WitnessC12 ==
  /\ cr_pc = "follow_image_embeds"
  /\ fe_pc = "feed"
  /\ Len(ResolveRequests) = 2
  /\ Len(yielded) = 1
  /\ Len(printed) = 1
  /\ Len(Candidates(posts, 1)) = 3
  /\ post_i = 1

\* C19: the lookup and all listing requests are made inside the call of
\* linked_image_urls: the lookup comes first, no listing request is made
\* once main has the generator, and none is made after a resolver or
\* downloader request; a lookup or listing failure ends the run with
\* nothing scanned, fetched, yielded or printed.
TheoremC19 ==
  /\ [](/\ cr_pc \in {"main", "next", "find_link_images",
                      "follow_image_embeds", "body", "prettyprint_size",
                      "done"} =>
             Len(lookups) = 1 /\ gp_pc = "returned"
        /\ (fetches # <<>> \/ yielded # <<>> \/ ils_pc # "idle") =>
             Len(lookups) = 1 /\ gp_pc = "returned"
        /\ (cr_pc \in Exceptions /\ gp_pc # "returned") =>
             /\ fetches = <<>>
             /\ yielded = <<>>
             /\ printed = <<>>
             /\ ils_pc = "idle")
  /\ [][/\ lookups' # lookups => lookups = <<>> /\ requests = <<>>
        /\ (lookups' # lookups \/ requests' # requests) =>
             /\ cr_pc \in {"start", "get_all_posts"}
             /\ fetches = <<>>
             /\ yielded = <<>>]_vars

\* a crawl in download mode made two listing requests, then resolved and
\* downloaded two URLs
WitnessC19 ==
  /\ Len(lookups) = 1
  /\ Len(requests) = 2
  /\ Len(ResolveRequests) = 2
  /\ Len(DownloadRequests) = 2
  /\ Len(yielded) = 2

\* a listing response without the items field has been received
MalformedListing ==
  \E i \in 1..Len(requests) :
    ~Failed(ResponseTo(i)) /\ "items" \notin DOMAIN ResponseTo(i)

\* an error has occurred in the run
ErrorSeen ==
  \/ MalformedListing
  \/ cr_pc \in Exceptions
  \/ gp_pc \in Exceptions
  \/ ils_pc \in Exceptions
  \/ fe_pc \in Exceptions
  \/ dl_pc \in Exceptions

\* the directory holds what the downloads written so far have put there
FilesAsWritten ==
  /\ DOMAIN files = {written[i].name : i \in 1..Len(written)}
  /\ \A name \in DOMAIN files : files[name] = LastWritten(name)

\* C13: after the first error nothing more is requested, yielded, printed
\* or written; and a run ended by an error while at its k-th element has
\* left the lines and files of the elements 1..k-1, all of them intact.
ClaimC13 ==
  /\ [][ErrorSeen =>
          /\ lookups' = lookups
          /\ requests' = requests
          /\ fetches' = fetches
          /\ yielded' = yielded
          /\ printed' = printed
          /\ files' = files]_vars
  /\ [](cr_pc \in Exceptions =>
          /\ Len(written) = (IF destination = "none" THEN 0 ELSE Len(printed))
          /\ FilesAsWritten)

====
